---- MODULE Spec2Model ----
(***************************************************************************)
(* Model of src/mcp_client.py: a chat client that connects to an MCP tool  *)
(* server, lists its tools, and runs a two-phase completion loop           *)
(* (ask the model, run the tool calls it asks for, ask again).             *)
(*                                                                         *)
(* Text is modelled as sequences of characters.  The Cyrillic letters of   *)
(* the exit keyword are written in Latin transliteration: "v" "y" "kh" "o" *)
(* "d" for the lower-case letters and "V" "Y" "KH" "O" "D" for the         *)
(* upper-case ones.  The Russian message texts of the source are written   *)
(* as short ASCII tags.                                                    *)
(***************************************************************************)
EXTENDS Integers, Sequences, FiniteSets, TLC

\* ------------------------------------------------------------------ bounds
\* number of user turns (non-empty, non-exit inputs) explored in one session
MaxTurns == 2
\* number of tool-call intents the completion endpoint emits in one session
MaxIds == 3
\* length of the argument list of a tool descriptor given to the translator
MaxArgs == 2

\* ------------------------------------------------------------- plain values
None == "None"

\* the system instruction that seeds the history (lines 156-167)
SystemPrompt == "system-prompt"

\* the exit keyword compared against at line 180, as characters
ExitKeyword == <<"v", "y", "kh", "o", "d">>

\* the tool-role content of line 221
JsonErrorContent == "error: invalid JSON argument format"

\* the prefix of the tool-role content of line 224
ToolErrorPrefix == "tool execution error: "

\* ----------------------------------------------------------- text helpers
\* str.strip() with no argument removes leading and trailing whitespace
IsSpace(c) == c \in {" ", "\t"}

RECURSIVE LStrip(_)
LStrip(s) == IF s # <<>> /\ IsSpace(Head(s)) THEN LStrip(Tail(s)) ELSE s

RECURSIVE RStrip(_)
RStrip(s) ==
    IF s # <<>> /\ IsSpace(s[Len(s)]) THEN RStrip(SubSeq(s, 1, Len(s) - 1)) ELSE s

Strip(s) == RStrip(LStrip(s))

\* str.lower(): upper-case letters map to lower-case, the rest is unchanged
LowerChar(c) ==
    CASE c = "V" -> "v"
      [] c = "Y" -> "y"
      [] c = "KH" -> "kh"
      [] c = "O" -> "o"
      [] c = "D" -> "d"
      [] OTHER -> c

Lower(s) == [i \in 1..Len(s) |-> LowerChar(s[i])]

\* faulty variant: the comparison without lower()
IsExitNoFold(user_request) == Strip(user_request) = ExitKeyword

\* line 180: user_request.strip().lower() == "выход"
IsExit(user_request) == Lower(Strip(user_request)) = ExitKeyword

\* faulty variant: the empty-input test left out
IsBlankNever(user_request) == FALSE

\* line 183: not user_request.strip()
IsBlank(user_request) == Strip(user_request) = <<>>

\* -------------------------------------------------- tool descriptor translator
\* An attribute of a received object is [present |-> BOOLEAN, value |-> v]:
\* present is FALSE when the object has no such attribute.  A text attribute
\* may hold None; an argument list that is None is written as the empty list
\* (line 51 tests only its truthiness).
GetAttr(obj, field, default) == IF obj[field].present THEN obj[field].value ELSE default

\* Python truthiness of a text value (lines 57, 61, 72)
TruthyText(v) == v \notin {None, ""}

\* x or '' (lines 61, 72)
OrEmpty(v) == IF TruthyText(v) THEN v ELSE ""

\* faulty variant: an argument without a name is not skipped
RECURSIVE TranslateArgsNoSkip(_, _, _, _)
TranslateArgsNoSkip(mcp_tool, mcp_arguments, i, parameters) ==
    IF i > Len(mcp_arguments) THEN [ok |-> TRUE, parameters |-> parameters]
    ELSE
      LET arg == mcp_arguments[i]
          arg_name == GetAttr(arg, "name", None)
          arg_description == OrEmpty(GetAttr(arg, "description", ""))
          arg_required == GetAttr(arg, "required", FALSE)
          prop == [type |-> "string", description |-> arg_description]
          properties ==
              [n \in DOMAIN parameters.properties \cup {arg_name} |->
                  IF n = arg_name THEN prop ELSE parameters.properties[n]]
          required ==
              IF arg_required
              THEN Append(parameters.required, arg_name)
              ELSE parameters.required
      IN TranslateArgsNoSkip(mcp_tool, mcp_arguments, i + 1,
             [type |-> "object", properties |-> properties, required |-> required])

\* lines 52-69: the loop over the argument list, from argument i on.
\* Line 58 reads mcp_tool.name directly, which raises when the tool has no name.
RECURSIVE TranslateArgs(_, _, _, _)
TranslateArgs(mcp_tool, mcp_arguments, i, parameters) ==
    IF i > Len(mcp_arguments) THEN [ok |-> TRUE, parameters |-> parameters]
    ELSE
      LET arg == mcp_arguments[i]
          arg_name == GetAttr(arg, "name", None)
      IN
      IF ~TruthyText(arg_name)
      THEN IF ~mcp_tool.name.present
           THEN [ok |-> FALSE, parameters |-> parameters]
           ELSE TranslateArgs(mcp_tool, mcp_arguments, i + 1, parameters)
      ELSE
        LET arg_description == OrEmpty(GetAttr(arg, "description", ""))
            arg_required == GetAttr(arg, "required", FALSE)
            prop == [type |-> "string", description |-> arg_description]
            properties ==
                [n \in DOMAIN parameters.properties \cup {arg_name} |->
                    IF n = arg_name THEN prop ELSE parameters.properties[n]]
            required ==
                IF arg_required
                THEN Append(parameters.required, arg_name)
                ELSE parameters.required
        IN TranslateArgs(mcp_tool, mcp_arguments, i + 1,
               [type |-> "object", properties |-> properties, required |-> required])

\* lines 40-81
mcp_tool_to_openai_tool(mcp_tool) ==
    LET empty == [type |-> "object", properties |-> <<>>, required |-> <<>>]
        mcp_arguments == GetAttr(mcp_tool, "arguments", <<>>)
        looped == IF mcp_arguments # <<>>
                  THEN TranslateArgs(mcp_tool, mcp_arguments, 1, empty)
                  ELSE [ok |-> TRUE, parameters |-> empty]
        tool_name == GetAttr(mcp_tool, "name", "unknown_tool")
        tool_description == OrEmpty(GetAttr(mcp_tool, "description", ""))
    IN
    IF ~looped.ok THEN [ok |-> FALSE, value |-> None]
    ELSE [ok |-> TRUE,
          value |-> [type |-> "function",
                     function |-> [name |-> tool_name,
                                   description |-> tool_description,
                                   parameters |-> looped.parameters]]]

\* line 150: the list comprehension; it raises when one translation raises
RECURSIVE ConvertTools(_)
ConvertTools(mcp_tools_list) ==
    IF mcp_tools_list = <<>> THEN [ok |-> TRUE, value |-> <<>>]
    ELSE
      LET first == mcp_tool_to_openai_tool(Head(mcp_tools_list))
          rest == ConvertTools(Tail(mcp_tools_list))
      IN
      IF first.ok /\ rest.ok
      THEN [ok |-> TRUE, value |-> <<first.value>> \o rest.value]
      ELSE [ok |-> FALSE, value |-> <<>>]

\* ------------------------------------------------------------ the environment
\* the states of the OPENAI_API_KEY credential when the script starts
Credentials == {"absent", "empty", "present"}

\* lines typed by the user, and the characters each consists of
Inputs == {"vykhod", " VyKHOd\t", "", "  ", "2 + 2"}

Chars(line) ==
    CASE line = "vykhod" -> <<"v", "y", "kh", "o", "d">>
      [] line = " VyKHOd\t" -> <<" ", "V", "y", "KH", "O", "d", "\t">>
      [] line = "" -> <<>>
      [] line = "  " -> <<" ", " ">>
      [] line = "2 + 2" -> <<"2", " ", "+", " ", "2">>

\* tool descriptors the tool server may list
Attr(v) == [present |-> TRUE, value |-> v]
NoText == [present |-> FALSE, value |-> None]
NoList == [present |-> FALSE, value |-> <<>>]
NoFlag == [present |-> FALSE, value |-> FALSE]

AddTool == [name |-> Attr("add"), description |-> Attr("adds two numbers"),
            arguments |-> NoList]
NamelessTool == [name |-> NoText, description |-> Attr(None),
                 arguments |-> Attr(<<[name |-> NoText, description |-> NoText,
                                      required |-> NoFlag]>>)]

\* what session.list_tools() may answer: it raises, or returns a list
ListAnswers == {<<>>, <<AddTool>>, <<AddTool, NamelessTool>>}

\* argument payloads of a tool-call intent, and json.loads of each (line 213)
ArgsMapping == "{\"a\": \"2\", \"b\": \"2\"}"
ArgsList == "[2, 2]"
ArgsBroken == "{\"a\": \"2\", "
Payloads == {ArgsMapping, ArgsList, ArgsBroken}

JsonLoads(text) ==
    CASE text = ArgsMapping -> [ok |-> TRUE, value |-> [type |-> "dict", text |-> text]]
      [] text = ArgsList -> [ok |-> TRUE, value |-> [type |-> "list", text |-> text]]
      [] OTHER -> [ok |-> FALSE, value |-> [type |-> None, text |-> text]]

\* results and failures of session.call_tool, and texts of completions
ToolResults == {"4"}
ToolErrors == {"tool failed"}
Texts == {"2 + 2 = 4"}

\* str(mcp_tool_result) (line 218)
Str(mcp_tool_result) == "CallToolResult(text='" \o mcp_tool_result \o "')"

\* -------------------------------------------------------------------- state
VARIABLES
    pc,                     \* where the run is
    credential,             \* the OPENAI_API_KEY credential at startup
    reported,               \* the startup report about the credential, if any
    connOpen,               \* the stdio_client scope is entered (line 129)
    sessOpen,               \* the ClientSession scope is entered (line 133)
    connAcquired,           \* times the connection was acquired
    sessAcquired,           \* times the session was acquired
    ending,                 \* why the run left its normal course
    toolsError,             \* the diagnostic of line 153 was printed
    openai_tools,           \* line 142 / 150
    messages,               \* the conversation history (line 156)
    user_request,           \* the last line read (line 179)
    request,                \* the completion request in flight
    response,               \* the first response of the turn (line 191)
    second_response,        \* the second response of the turn (line 231)
    firstPhaseIds,          \* ids of the intents first-phase responses carried
    tool_calls,             \* line 198
    idx,                    \* position of the for loop of line 208
    tool_results_messages,  \* line 207
    final_answer,           \* lines 236, 242
    displayed,              \* the answer printed at line 247
    callLog,                \* session.call_tool invocations of the current turn
    turnRequests,           \* completion requests issued in the current turn
    turnStart,              \* length of the history when the current turn began
    turns,                  \* turns started so far
    nextId,                 \* next tool-call id the completion endpoint uses
    mcp_tool,               \* the descriptor given to the translator (line 40)
    translation             \* what the translator did with it (lines 74-81)

vars == <<pc, credential, reported, connOpen, sessOpen, connAcquired, sessAcquired,
          ending, toolsError, openai_tools, messages, user_request, request,
          response, second_response, firstPhaseIds, tool_calls, idx, tool_results_messages, final_answer,
          displayed, callLog, turnRequests, turnStart, turns, nextId,
          mcp_tool, translation>>

translatorVars == <<mcp_tool, translation>>
startupVars == <<translatorVars, credential, reported, connOpen, sessOpen,
                 connAcquired, sessAcquired, toolsError, openai_tools>>
scopeVars == <<connOpen, sessOpen, connAcquired, sessAcquired>>
turnVars == <<messages, user_request, request, response, second_response,
              firstPhaseIds, tool_calls, idx,
              tool_results_messages, final_answer, displayed, callLog,
              turnRequests, turnStart, turns, nextId>>

NoRequest == [phase |-> None, tools |-> [given |-> FALSE, list |-> <<>>],
              tool_choice |-> None]
NoResponse == [content |-> None, tool_calls |-> <<>>]
NotTranslated == [done |-> FALSE, ok |-> FALSE, value |-> None]

\* the state in which the script starts, but for pc and the credential
Fresh ==
    /\ reported = None
    /\ connOpen = FALSE
    /\ sessOpen = FALSE
    /\ connAcquired = 0
    /\ sessAcquired = 0
    /\ ending = None
    /\ toolsError = FALSE
    /\ openai_tools = <<>>
    /\ messages = <<>>
    /\ user_request = None
    /\ request = NoRequest
    /\ response = NoResponse
    /\ second_response = NoResponse
    /\ firstPhaseIds = {}
    /\ tool_calls = <<>>
    /\ idx = 0
    /\ tool_results_messages = <<>>
    /\ final_answer = None
    /\ displayed = None
    /\ callLog = <<>>
    /\ turnRequests = 0
    /\ turnStart = 0
    /\ turns = 0
    /\ nextId = 1
    /\ translation = NotTranslated

Init ==
    /\ pc = "main"
    /\ credential \in Credentials
    /\ mcp_tool = AddTool
    /\ Fresh

\* ------------------------------------------------------------------ startup
\* line 267: "OPENAI_API_KEY" not in os.environ (an empty value is in it)
KeyInEnviron(c) == c # "absent"

\* faulty variant: the api_key test left out
ApiKeyUsableAlways(c) == TRUE

\* lines 103-105: the client is built and its api_key is truthy
ApiKeyUsable(c) == c = "present"

\* lines 264-271: the entry point checks the environment before run_client
MainCheck ==
    /\ pc = "main"
    /\ IF KeyInEnviron(credential)
       THEN /\ pc' = "run_client"
            /\ reported' = reported
       ELSE /\ pc' = "done"
            /\ reported' = "main: OPENAI_API_KEY not found"
    /\ UNCHANGED <<translatorVars, credential, scopeVars, toolsError, openai_tools, ending, turnVars>>

\* lines 101-111: the completion client is set up, or run_client returns
SetupOpenAI ==
    /\ pc = "run_client"
    /\ IF ApiKeyUsable(credential)
       THEN /\ pc' = "connect"
            /\ reported' = reported
       ELSE /\ pc' = "done"
            /\ reported' = "run_client: OpenAI client setup error"
    /\ UNCHANGED <<translatorVars, credential, scopeVars, toolsError, openai_tools, ending, turnVars>>

\* faulty variant: the exception ends the run without leaving the scopes
PropagateUnscoped == "done"

\* lines 129-133: an exception that run_client does not catch leaves the two
\* async with scopes, which release the session and then the connection
Propagate == "unwind"

\* line 129: entering the stdio_client scope
Connect ==
    /\ pc = "connect"
    /\ \/ /\ connOpen' = TRUE
          /\ connAcquired' = connAcquired + 1
          /\ pc' = "open_session"
          /\ ending' = ending
       \/ /\ pc' = "done"
          /\ ending' = "ConnectError"
          /\ UNCHANGED <<connOpen, connAcquired>>
    /\ UNCHANGED <<translatorVars, credential, reported, sessOpen, sessAcquired, toolsError,
                   openai_tools, turnVars>>

\* line 133: entering the ClientSession scope; a failure leaves the outer scope
OpenSession ==
    /\ pc = "open_session"
    /\ \/ /\ sessOpen' = TRUE
          /\ sessAcquired' = sessAcquired + 1
          /\ pc' = "initialize"
          /\ ending' = ending
       \/ /\ pc' = "close_connection"
          /\ ending' = "SessionError"
          /\ UNCHANGED <<sessOpen, sessAcquired>>
    /\ UNCHANGED <<translatorVars, credential, reported, connOpen, connAcquired, toolsError,
                   openai_tools, turnVars>>

\* lines 138-139: the initialization handshake; a failure is not caught in
\* run_client and unwinds both scopes
Initialize ==
    /\ pc = "initialize"
    /\ \/ /\ pc' = "list_tools"
          /\ ending' = ending
       \/ /\ pc' = Propagate
          /\ ending' = "InitError"
    /\ UNCHANGED <<startupVars, turnVars>>

\* lines 156-167: the history is seeded with the system instruction
SeedHistory == <<[role |-> "system", content |-> SystemPrompt]>>

\* lines 141-169, list_tools raises: the except of line 152 keeps the empty list
ListToolsRaises ==
    /\ pc = "list_tools"
    /\ openai_tools' = <<>>
    /\ toolsError' = TRUE
    /\ messages' = SeedHistory
    /\ pc' = "AwaitingInput"
    /\ UNCHANGED <<translatorVars, credential, reported, scopeVars, ending, user_request, request,
                   response, second_response, firstPhaseIds, tool_calls, idx,
                   tool_results_messages, final_answer, displayed, callLog,
                   turnRequests, turnStart, turns, nextId>>

\* lines 141-169, list_tools returns mcp_tools_list
ListToolsReturns ==
    /\ pc = "list_tools"
    /\ \E mcp_tools_list \in ListAnswers :
          LET converted == ConvertTools(mcp_tools_list) IN
          /\ openai_tools' = IF converted.ok THEN converted.value ELSE <<>>
          /\ toolsError' = ~converted.ok
    /\ messages' = SeedHistory
    /\ pc' = "AwaitingInput"
    /\ UNCHANGED <<translatorVars, credential, reported, scopeVars, ending, user_request, request,
                   response, second_response, firstPhaseIds, tool_calls, idx,
                   tool_results_messages, final_answer, displayed, callLog,
                   turnRequests, turnStart, turns, nextId>>

\* ------------------------------------------------------------ the chat loop
\* lines 180-184: what the loop does with the line it read
LineKind(line) ==
    IF IsExit(Chars(line)) THEN "exit"
    ELSE IF IsBlank(Chars(line)) THEN "blank"
    ELSE "request"

\* faulty variant: continue in place of break
LoopErrorRetries == "AwaitingInput"

\* lines 249-251: an Exception raised in the loop body is caught and the loop
\* is left with break
LoopError == "Closed"

\* faulty variant: the empty list is passed as it is
FirstRequestListAsIs(tools) ==
    [phase |-> "first", tools |-> [given |-> TRUE, list |-> tools],
     tool_choice |-> "auto"]

\* lines 191-196: tools is None when the translated list is empty
FirstRequest(tools) ==
    [phase |-> "first", tools |-> [given |-> tools # <<>>, list |-> tools],
     tool_choice |-> "auto"]

\* faulty variant: the final request offers the tools again
FinalRequestWithTools ==
    [phase |-> "final", tools |-> [given |-> TRUE, list |-> openai_tools],
     tool_choice |-> "auto"]

\* lines 231-235: neither tools nor tool_choice is passed
FinalRequest ==
    [phase |-> "final", tools |-> [given |-> FALSE, list |-> <<>>],
     tool_choice |-> None]

\* lines 179-182: the exit keyword breaks out of the loop
ReadExit ==
    /\ pc = "AwaitingInput"
    /\ \E line \in Inputs :
          /\ LineKind(line) = "exit"
          /\ user_request' = line
    /\ ending' = "exit"
    /\ pc' = "Closed"
    /\ UNCHANGED <<startupVars, messages, request, response, second_response,
                   firstPhaseIds, tool_calls, idx, tool_results_messages,
                   final_answer, displayed, callLog, turnRequests, turnStart,
                   turns, nextId>>

\* lines 179-184: an empty line continues the loop
ReadBlank ==
    /\ pc = "AwaitingInput"
    /\ \E line \in Inputs :
          /\ LineKind(line) = "blank"
          /\ user_request' = line
    /\ pc' = "AwaitingInput"
    /\ UNCHANGED <<startupVars, ending, messages, request, response,
                   second_response, firstPhaseIds, tool_calls, idx,
                   tool_results_messages, final_answer, displayed, callLog,
                   turnRequests, turnStart, turns, nextId>>

\* line 179 at end of input: input() raises EOFError, caught at line 249
ReadEOF ==
    /\ pc = "AwaitingInput"
    /\ ending' = "EOFError"
    /\ pc' = LoopError
    /\ UNCHANGED <<startupVars, turnVars>>

\* lines 179-196: the line is appended as a user message and the first
\* completion request is sent with the whole history
ReadRequest ==
    /\ pc = "AwaitingInput"
    /\ turns < MaxTurns
    /\ \E line \in Inputs :
          /\ LineKind(line) = "request"
          /\ user_request' = line
          /\ messages' = Append(messages, [role |-> "user", content |-> line])
    /\ request' = FirstRequest(openai_tools)
    /\ turns' = turns + 1
    /\ turnStart' = Len(messages)
    /\ turnRequests' = 1
    /\ callLog' = <<>>
    /\ pc' = "RequestingCompletion"
    /\ UNCHANGED <<startupVars, ending, response, second_response, firstPhaseIds,
                   tool_calls, idx, tool_results_messages, final_answer,
                   displayed, nextId>>

\* faulty variant: the answer is printed and not appended to the history
DirectAnswerUnrecorded(history, text) ==
    /\ final_answer' = text
    /\ messages' = history
    /\ displayed' = final_answer'
    /\ pc' = "AwaitingInput"

\* lines 238/244 and 247: the answer is appended to the history and printed
DirectAnswer(history, text) ==
    /\ final_answer' = text
    /\ messages' = Append(history, [role |-> "assistant", content |-> text])
    /\ displayed' = final_answer'
    /\ pc' = "AwaitingInput"

\* lines 218, 221, 224: the tool-role message for one intent
ToolMessage(tool_call, content) ==
    [tool_call_id |-> tool_call.id, role |-> "tool", name |-> tool_call.name,
     content |-> content]

\* faulty variant: a decode failure appends no message
RECURSIVE DecodeFromSilent(_, _, _)
DecodeFromSilent(calls, i, results) ==
    IF i > Len(calls) THEN [i |-> i, results |-> results]
    ELSE IF JsonLoads(calls[i].arguments).ok THEN [i |-> i, results |-> results]
    ELSE DecodeFromSilent(calls, i + 1, results)

\* faulty variant: a decode failure ends the for loop
DecodeFromAborting(calls, i, results) ==
    IF i > Len(calls) THEN [i |-> i, results |-> results]
    ELSE IF JsonLoads(calls[i].arguments).ok THEN [i |-> i, results |-> results]
    ELSE [i |-> Len(calls) + 1,
          results |-> Append(results, ToolMessage(calls[i], JsonErrorContent))]

\* lines 208-221: from intent i on, every intent whose arguments do not decode
\* gets its error message at once; the loop stops at the first intent whose
\* arguments decode (its call_tool is awaited) or at the end of the batch
RECURSIVE DecodeFrom(_, _, _)
DecodeFrom(calls, i, results) ==
    IF i > Len(calls) THEN [i |-> i, results |-> results]
    ELSE IF JsonLoads(calls[i].arguments).ok THEN [i |-> i, results |-> results]
    ELSE DecodeFrom(calls, i + 1,
                    Append(results, ToolMessage(calls[i], JsonErrorContent)))

\* faulty variant: the results are not added to the history
ExtendForgotten(history, results) == history

\* faulty variant: the results take the place of the history
ExtendOverwrites(history, results) == results

\* line 227: messages.extend(tool_results_messages)
Extend(history, results) == history \o results

\* faulty variant: each result goes to the history as soon as it is there
AwaitingAppended(history, results) == history \o results

\* lines 207-218: while call_tool is awaited the results so far are held in
\* tool_results_messages; the history is as line 205 left it
Awaiting(history, results) == history

\* lines 208-235: the for loop from intent i on, up to its next await: either
\* call_tool of the next intent whose arguments decode, or, after the last
\* intent, the results are added to the history and the final completion
\* request is sent
BatchStep(calls, i, results, history, log) ==
    LET r == DecodeFrom(calls, i, results) IN
    /\ idx' = r.i
    /\ tool_results_messages' = r.results
    /\ IF r.i > Len(calls)
       THEN /\ messages' = Extend(history, r.results)
            /\ request' = FinalRequest
            /\ turnRequests' = turnRequests + 1
            /\ callLog' = log
            /\ pc' = "RequestingFinalCompletion"
       ELSE /\ messages' = Awaiting(history, r.results)
            /\ request' = NoRequest
            /\ turnRequests' = turnRequests
            /\ callLog' = Append(log,
                                 [id |-> calls[r.i].id, name |-> calls[r.i].name,
                                  arguments |-> JsonLoads(calls[r.i].arguments).value,
                                  outcome |-> "pending"])
            /\ pc' = "DispatchingTools"

\* the tool-call intents a response may carry: n intents with fresh ids
Intents(first, n) ==
    {[k \in 1..n |-> [id |-> first + k - 1, name |-> "add", arguments |-> args[k]]] :
        args \in [1..n -> Payloads]}

\* what the completion endpoint may answer to the first request: a text and
\* no tool calls, or tool calls and no text
FirstResponses ==
    {[content |-> text, tool_calls |-> <<>>] : text \in Texts}
    \cup
    UNION {{[content |-> None, tool_calls |-> calls] : calls \in Intents(nextId, n)} :
              n \in 1..(MaxIds - nextId + 1)}

\* what it may answer to the second request: a text, and possibly a tool call
SecondResponses ==
    UNION {{[content |-> text, tool_calls |-> calls] :
               text \in Texts, calls \in Intents(nextId, n)} :
              n \in 0..(IF nextId <= MaxIds THEN 1 ELSE 0)}

\* faulty variant: the tool branch is taken for every response
HasToolCallsAlways(calls) == TRUE

\* line 201: if tool_calls
HasToolCalls(calls) == calls # <<>>

\* lines 191-198 raise (the request fails): caught at line 249
FirstCompletionFails ==
    /\ pc = "RequestingCompletion"
    /\ request' = NoRequest
    /\ ending' = "APIError"
    /\ pc' = LoopError
    /\ UNCHANGED <<startupVars, messages, user_request, response, second_response,
                   firstPhaseIds, tool_calls, idx, tool_results_messages,
                   final_answer, displayed, callLog, turnRequests, turnStart,
                   turns, nextId>>

\* lines 197-208 and 240-247: the first response arrives.  With tool calls it
\* is appended as it is and the batch starts; without, its text is the answer
FirstCompletionReturns ==
    /\ pc = "RequestingCompletion"
    /\ \E response_message \in FirstResponses :
          /\ response' = response_message
          /\ tool_calls' = response_message.tool_calls
          /\ nextId' = nextId + Len(response_message.tool_calls)
          /\ firstPhaseIds' = firstPhaseIds \cup
                 {response_message.tool_calls[k].id :
                     k \in 1..Len(response_message.tool_calls)}
          /\ IF HasToolCalls(response_message.tool_calls)
             THEN /\ BatchStep(response_message.tool_calls, 1, <<>>,
                               Append(messages,
                                      [role |-> "assistant",
                                       content |-> response_message.content,
                                       tool_calls |-> response_message.tool_calls]),
                               callLog)
                  /\ UNCHANGED <<final_answer, displayed>>
             ELSE /\ DirectAnswer(messages, response_message.content)
                  /\ request' = NoRequest
                  /\ UNCHANGED <<idx, tool_results_messages, callLog, turnRequests>>
    /\ UNCHANGED <<startupVars, ending, user_request, second_response, turnStart,
                   turns>>

\* faulty variant: the next intent is taken up without the outcome of the call
OutcomeLost(log, outcome) == log

\* the log entry of the call that was awaited gets its outcome
Outcome(log, outcome) == [log EXCEPT ![Len(log)].outcome = outcome]

\* lines 216-218: call_tool returns; the loop goes on with the next intent
ToolReturns ==
    /\ pc = "DispatchingTools"
    /\ \E mcp_tool_result \in ToolResults :
          BatchStep(tool_calls, idx + 1,
                    Append(tool_results_messages,
                           ToolMessage(tool_calls[idx], Str(mcp_tool_result))),
                    messages, Outcome(callLog, "returned"))
    /\ UNCHANGED <<startupVars, ending, user_request, response, second_response,
                   firstPhaseIds, tool_calls, final_answer, displayed, turnStart,
                   turns, nextId>>

\* faulty variant: the failure is not caught per intent and ends the loop
OnToolFailureAborts(e) ==
    /\ pc' = "Closed"
    /\ callLog' = Outcome(callLog, "raised")
    /\ UNCHANGED <<idx, tool_results_messages, messages, request, turnRequests>>

\* lines 222-224: call_tool raises e; the except of the intent records it and
\* the loop goes on with the next intent
OnToolFailure(e) ==
    BatchStep(tool_calls, idx + 1,
              Append(tool_results_messages,
                     ToolMessage(tool_calls[idx], ToolErrorPrefix \o e)),
              messages, Outcome(callLog, "raised"))

ToolRaises ==
    /\ pc = "DispatchingTools"
    /\ \E e \in ToolErrors : OnToolFailure(e)
    /\ UNCHANGED <<startupVars, ending, user_request, response, second_response,
                   firstPhaseIds, tool_calls, final_answer, displayed, turnStart,
                   turns, nextId>>

\* lines 231-235 raise: caught at line 249
FinalCompletionFails ==
    /\ pc = "RequestingFinalCompletion"
    /\ request' = NoRequest
    /\ ending' = "APIError"
    /\ pc' = LoopError
    /\ UNCHANGED <<startupVars, messages, user_request, response, second_response,
                   firstPhaseIds, tool_calls, idx, tool_results_messages,
                   final_answer, displayed, callLog, turnRequests, turnStart,
                   turns, nextId>>

\* lines 231-247: only the content of the second response is read; tool calls
\* it may carry are not looked at
FinalCompletionReturns ==
    /\ pc = "RequestingFinalCompletion"
    /\ \E second \in SecondResponses :
          /\ second_response' = second
          /\ nextId' = nextId + Len(second.tool_calls)
          /\ DirectAnswer(messages, second.content)
    /\ request' = NoRequest
    /\ UNCHANGED <<startupVars, ending, user_request, response, firstPhaseIds,
                   tool_calls, idx, tool_results_messages, callLog, turnRequests,
                   turnStart, turns>>

\* ---------------------------------------------------------------- shutdown
\* process-level interruption while the run waits inside the session scope:
\* not an Exception, so line 249 does not catch it; it leaves both scopes and
\* is reported at lines 275-276
Interrupt ==
    /\ pc \in {"initialize", "list_tools", "AwaitingInput", "RequestingCompletion",
               "DispatchingTools", "RequestingFinalCompletion"}
    /\ ending' = "KeyboardInterrupt"
    /\ pc' = Propagate
    /\ UNCHANGED <<startupVars, turnVars>>

\* line 256: the ClientSession scope is left, after the loop or on an exception
CloseSession ==
    /\ pc \in {"Closed", "unwind"}
    /\ sessOpen' = FALSE
    /\ pc' = "close_connection"
    /\ UNCHANGED <<translatorVars, credential, reported, connOpen, connAcquired, sessAcquired,
                   toolsError, openai_tools, ending, turnVars>>

\* faulty variant: run_client ends with the connection still open
CloseConnectionLeaks ==
    /\ pc = "close_connection"
    /\ pc' = "done"
    /\ UNCHANGED <<translatorVars, credential, reported, scopeVars, toolsError,
                   openai_tools, ending, turnVars>>

\* line 257: the stdio_client scope is left; run_client ends (lines 273-278)
CloseConnection ==
    /\ pc = "close_connection"
    /\ connOpen' = FALSE
    /\ pc' = "done"
    /\ UNCHANGED <<translatorVars, credential, reported, sessOpen, connAcquired, sessAcquired,
                   toolsError, openai_tools, ending, turnVars>>

Next ==
    \/ MainCheck
    \/ SetupOpenAI
    \/ Connect
    \/ OpenSession
    \/ Initialize
    \/ ListToolsRaises
    \/ ListToolsReturns
    \/ ReadExit
    \/ ReadBlank
    \/ ReadEOF
    \/ ReadRequest
    \/ FirstCompletionFails
    \/ FirstCompletionReturns
    \/ ToolReturns
    \/ ToolRaises
    \/ FinalCompletionFails
    \/ FinalCompletionReturns
    \/ Interrupt
    \/ CloseSession
    \/ CloseConnection

Spec == Init /\ [][Next]_vars

\* ================================================================== claims
\* a completion request is in flight
RequestSent == pc \in {"RequestingCompletion", "RequestingFinalCompletion"}

\* the positions of the tool-role messages of the history that answer intent id
ToolMessagesFor(id) ==
    {i \in 1..Len(messages) :
        messages[i].role = "tool" /\ messages[i].tool_call_id = id}

\* the position of intent id in the current batch
PositionOf(id) == CHOOSE k \in 1..Len(tool_calls) : tool_calls[k].id = id

\* the messages the current turn added to the history
Added == SubSeq(messages, turnStart + 1, Len(messages))

\* the current turn is one whose first response carried tool calls
ToolTurn == turns >= 1 /\ response.tool_calls # <<>>

\* C1 as stated: whenever a completion request is in flight, every tool-call
\* intent of every earlier completion response (the ids handed out so far) has
\* exactly one tool-role message with its id in the history.
C1_EveryIntentAnswered ==
    RequestSent =>
        \A id \in 1..(nextId - 1) : Cardinality(ToolMessagesFor(id)) = 1

\* C1 amended: whenever a completion request is in flight, every tool-call
\* intent of every earlier first-phase completion response has exactly one
\* tool-role message with its id in the history, whatever mix of successful
\* calls, decode failures and call failures the batch had.
C1_FirstPhaseIntentsAnswered ==
    RequestSent =>
        \A id \in firstPhaseIds : Cardinality(ToolMessagesFor(id)) = 1

\* a final request after a batch of three intents that had a decode failure,
\* a failed call and a successful call
C1_Witness ==
    /\ pc = "RequestingFinalCompletion"
    /\ Len(tool_calls) = 3
    /\ \E i, j, k \in 1..3 :
          /\ tool_results_messages[i].content = JsonErrorContent
          /\ tool_results_messages[j].content = ToolErrorPrefix \o "tool failed"
          /\ tool_results_messages[k].content = Str("4")

\* C2: when a turn whose first response carried n >= 1 tool calls is over
\* (its final completion succeeded), the turn has added to the history, in
\* this order, one user message, the assistant message with the tool calls,
\* n tool-role messages (one per intent, in intent order) and one assistant
\* message with the text of the final completion, and that text is what was
\* displayed; in a fresh session the turn starts right after the system message.
C2_ToolTurnHistory ==
    (pc = "AwaitingInput" /\ ToolTurn) =>
        LET n == Len(response.tool_calls) IN
        /\ Len(Added) = n + 3
        /\ Added[1].role = "user"
        /\ Added[2] = [role |-> "assistant", content |-> response.content,
                       tool_calls |-> response.tool_calls]
        /\ \A k \in 1..n :
              /\ Added[2 + k].role = "tool"
              /\ Added[2 + k].tool_call_id = response.tool_calls[k].id
        /\ Added[n + 3] = [role |-> "assistant", content |-> second_response.content]
        /\ displayed = second_response.content
        /\ turns = 1 => (turnStart = 1 /\ messages[1].role = "system")

\* the scenario of the specification: one tool call that returned 4
C2_Witness ==
    /\ pc = "AwaitingInput"
    /\ turns = 1
    /\ Len(messages) = 5
    /\ messages[2] = [role |-> "user", content |-> "2 + 2"]
    /\ messages[4].content = Str("4")
    /\ messages[5] = [role |-> "assistant", content |-> "2 + 2 = 4"]
    /\ displayed = "2 + 2 = 4"

\* C3: when a turn whose first response carried no tool calls is over, the
\* turn has added exactly one user message and then one assistant message with
\* the text of that response, has issued exactly one completion request and has
\* not invoked the tool server.
C3_DirectTurn ==
    (pc = "AwaitingInput" /\ turns >= 1 /\ response.tool_calls = <<>>) =>
        /\ Len(Added) = 2
        /\ Added[1].role = "user"
        /\ Added[2] = [role |-> "assistant", content |-> response.content]
        /\ turnRequests = 1
        /\ callLog = <<>>

\* a second turn answered directly, after a first turn that used tools
C3_Witness ==
    /\ pc = "AwaitingInput"
    /\ turns = 2
    /\ response.tool_calls = <<>>
    /\ Len(messages) > 5
    /\ turnRequests = 1

\* the batch of the current turn has been worked through
BatchOver == pc \in {"RequestingFinalCompletion", "AwaitingInput", "Closed"}

\* C4: an intent whose argument text does not decode gets a tool-role message
\* with its id and the decode-error content, the tool server is not invoked
\* for it, and the intents after it are processed all the same: once the
\* batch is over every intent of it has its message, in intent order.
C4_MalformedArguments ==
    ToolTurn =>
        /\ \A k \in 1..Len(tool_calls) :
              tool_calls[k].arguments = ArgsBroken =>
                 /\ \A c \in 1..Len(callLog) : callLog[c].id # tool_calls[k].id
                 /\ (k < idx \/ BatchOver) =>
                        /\ Len(tool_results_messages) >= k
                        /\ tool_results_messages[k] =
                              [tool_call_id |-> tool_calls[k].id, role |-> "tool",
                               name |-> tool_calls[k].name,
                               content |-> JsonErrorContent]
        /\ BatchOver =>
              /\ Len(tool_results_messages) = Len(tool_calls)
              /\ \A k \in 1..Len(tool_calls) :
                    tool_results_messages[k].tool_call_id = tool_calls[k].id

\* a batch that starts with a malformed intent and goes on to call the tool
\* server for the next one
C4_Witness ==
    /\ pc = "RequestingFinalCompletion"
    /\ Len(tool_calls) = 2
    /\ tool_calls[1].arguments = ArgsBroken
    /\ tool_results_messages[1].content = JsonErrorContent
    /\ Len(callLog) = 1
    /\ callLog[1].id = tool_calls[2].id

\* C5: when call_tool fails for an intent, the intent gets a tool-role message
\* with its id and the failure text, the loop is not closed by the failure (it
\* goes on with the batch), and once the batch is over every intent has its
\* message, the final completion request has been issued, and a successful
\* final completion leaves the loop in AwaitingInput.
C5_ToolFailureRecovered ==
    \A c \in 1..Len(callLog) :
        callLog[c].outcome = "raised" =>
           LET k == PositionOf(callLog[c].id) IN
           /\ Len(tool_results_messages) >= k
           /\ tool_results_messages[k] =
                 [tool_call_id |-> callLog[c].id, role |-> "tool",
                  name |-> tool_calls[k].name,
                  content |-> ToolErrorPrefix \o "tool failed"]
           /\ pc \in {"Closed", "close_connection", "done"} =>
                 ending \in {"exit", "EOFError", "APIError", "KeyboardInterrupt"}
           /\ BatchOver =>
                 /\ Len(tool_results_messages) = Len(tool_calls)
                 /\ turnRequests = 2
           /\ (pc = "AwaitingInput") =>
                 (Len(Added) = Len(tool_calls) + 3 /\ displayed = second_response.content)

\* the first call of a batch failed, the second was made, and the turn ended
\* back in AwaitingInput
C5_Witness ==
    /\ pc = "AwaitingInput"
    /\ Len(callLog) = 2
    /\ callLog[1].outcome = "raised"
    /\ callLog[2].outcome = "returned"
    /\ turnRequests = 2

\* the lines that are the exit keyword up to letter case and surrounding
\* whitespace, and the lines that hold nothing but whitespace
ExitLines == {"vykhod", " VyKHOd\t"}
BlankLines == {"", "  "}

\* the loop has been left
LoopLeft == pc \in {"Closed", "unwind", "close_connection", "done"}

\* a step that issues no completion request and no tool call
NothingIssued ==
    /\ request' = request
    /\ turnRequests' = turnRequests
    /\ callLog' = callLog

\* C6: a step from AwaitingInput that reads a line equal to the exit keyword up
\* to letter case and surrounding whitespace closes the loop, leaves the
\* history as it was and issues no completion request and no tool call; and a
\* run that ended this way has released the session and the connection.
C6_ExitKeyword ==
    /\ [][(pc = "AwaitingInput" /\ user_request' \in ExitLines
             /\ ending' \notin {"EOFError", "KeyboardInterrupt"}) =>
          (pc' = "Closed" /\ ending' = "exit" /\ messages' = messages
             /\ NothingIssued)]_vars
    /\ []((pc = "done" /\ ending = "exit") => (~sessOpen /\ ~connOpen))

\* the exit keyword in mixed case between whitespace, typed after a turn
C6_Witness ==
    /\ pc = "done"
    /\ ending = "exit"
    /\ user_request = " VyKHOd\t"
    /\ turns >= 1
    /\ ~sessOpen
    /\ ~connOpen

\* C7: the connection and the session are each acquired at most once, the
\* session is never open while the connection is not (it is acquired after
\* and released before the connection), and a run that has ended, on whatever
\* path, has neither of them open.
C7_ScopedResources ==
    /\ connAcquired <= 1
    /\ sessAcquired <= 1
    /\ sessOpen => connOpen
    /\ pc = "done" => (~sessOpen /\ ~connOpen)

\* a run that ended because the initialization handshake failed
C7_Witness ==
    /\ pc = "done"
    /\ ending = "InitError"
    /\ sessAcquired = 1
    /\ connAcquired = 1
    /\ ~sessOpen
    /\ ~connOpen

\* C8: a step from AwaitingInput that reads an empty or whitespace-only line
\* leaves the history as it was, issues no completion request and no tool call
\* and stays in AwaitingInput.
C8_BlankInput ==
    [][(pc = "AwaitingInput" /\ user_request' \in BlankLines
          /\ ending' = ending) =>
       (pc' = "AwaitingInput" /\ messages' = messages /\ NothingIssued
          /\ sessOpen' /\ connOpen')]_vars

\* a whitespace-only line read after a turn
C8_Witness ==
    /\ pc = "AwaitingInput"
    /\ user_request = "  "
    /\ turns >= 1
    /\ Len(messages) >= 3

\* C9: after an error of the loop body that is not one of the two recovered
\* per intent (a failed completion request, end of input) the loop has been
\* left, and once the loop has been left it stays left: no line is read, no
\* completion request or tool call is issued and the history does not change.
C9_ErrorsClose ==
    /\ [](ending \in {"APIError", "EOFError"} => LoopLeft)
    /\ [][LoopLeft =>
          (LoopLeft' /\ messages' = messages /\ user_request' = user_request
             /\ NothingIssued)]_vars

\* the loop was closed by the failure of a final completion request
C9_Witness ==
    /\ pc = "Closed"
    /\ ending = "APIError"
    /\ turnRequests = 2
    /\ turns = 2

\* C10: when the credential is not set (absent, or present with no value) the
\* run reports it and ends: no connection or session is ever opened, no tool
\* is listed or called, no line is read and no completion request is issued.
C10_MissingCredential ==
    credential # "present" =>
        /\ pc \in {"main", "run_client", "done"}
        /\ pc = "done" => reported # None
        /\ connAcquired = 0
        /\ sessAcquired = 0
        /\ ~toolsError
        /\ openai_tools = <<>>
        /\ messages = <<>>
        /\ user_request = None
        /\ turnRequests = 0
        /\ callLog = <<>>

\* the run ended reporting the missing credential
C10_Witness ==
    /\ pc = "done"
    /\ credential = "absent"
    /\ reported = "main: OPENAI_API_KEY not found"

\* C11: when list_tools fails, or translating the listed tools fails, the
\* startup goes on: the translated list is empty, the run enters the loop (it
\* does not end with an error before it), and every first-phase completion
\* request is sent with no tool list.
C11_ToolDiscoveryRecovered ==
    toolsError =>
        /\ openai_tools = <<>>
        /\ messages # <<>>
        /\ ending \notin {"InitError", "SessionError", "ConnectError"}
        /\ pc \notin {"main", "run_client", "connect", "open_session",
                      "initialize", "list_tools"}
        /\ request.phase = "first" => (~request.tools.given /\ request.tools.list = <<>>)

\* a first-phase request in flight in a session whose tool discovery failed
C11_Witness ==
    /\ toolsError
    /\ pc = "RequestingCompletion"
    /\ request.phase = "first"
    /\ ~request.tools.given
    /\ turns = 2

\* ------------------------------------------------ the translator on its own
\* the argument entries and the tool descriptors the translator is given
ArgNames == {Attr("a"), Attr("b"), Attr(""), Attr(None), NoText}
ArgDescriptions == {Attr("a number"), NoText}
ArgFlags == {Attr(TRUE), Attr(FALSE), NoFlag}
Arguments == [name : ArgNames, description : ArgDescriptions, required : ArgFlags]
ArgumentLists == UNION {[1..n -> Arguments] : n \in 0..MaxArgs}
Descriptors ==
    [name : {Attr("add"), NoText},
     description : {Attr("adds two numbers"), Attr(None), NoText},
     arguments : {NoList} \cup {Attr(l) : l \in ArgumentLists}]

InitTranslate ==
    /\ pc = "translate"
    /\ credential = "present"
    /\ mcp_tool \in Descriptors
    /\ Fresh

\* lines 40-81: one call of the translator; it returns a descriptor or raises
Translate ==
    /\ pc = "translate"
    /\ LET r == mcp_tool_to_openai_tool(mcp_tool) IN
       translation' = [done |-> TRUE, ok |-> r.ok, value |-> r.value]
    /\ pc' = "translated"
    /\ UNCHANGED <<mcp_tool, credential, reported, scopeVars, toolsError,
                   openai_tools, ending, turnVars>>

NextTranslate == Translate

SpecTranslate == InitTranslate /\ [][NextTranslate]_vars

\* the argument list of the descriptor, and the positions of its arguments
\* that have a non-empty name
SourceArguments == mcp_tool.arguments.value
Named ==
    {i \in 1..Len(SourceArguments) :
        /\ SourceArguments[i].name.present
        /\ SourceArguments[i].name.value \notin {None, ""}}
SourceNames == {SourceArguments[i].name.value : i \in Named}

Properties == translation.value.function.parameters.properties
Required == translation.value.function.parameters.required

WarningRaises ==
    /\ ~mcp_tool.name.present
    /\ Named # 1..Len(SourceArguments)

C13_TranslatorNeverFails ==
    translation.done =>
        /\ translation.ok
        /\ translation.value.function.name =
              (IF mcp_tool.name.present THEN mcp_tool.name.value ELSE "unknown_tool")
        /\ translation.value.function.description =
              (IF mcp_tool.description.present /\ mcp_tool.description.value # None
               THEN mcp_tool.description.value ELSE "")
        /\ DOMAIN Properties = SourceNames

\* C14: the calls of a batch are made one at a time in the order of the
\* intents: only the last call made can be without an outcome, and then the
\* loop waits at its intent with a message collected for every earlier intent;
\* the calls made follow the order of the intents, and the tool-role messages,
\* collected and in the history, are in the order of their intents.
C14_SequentialDispatch ==
    /\ \A k \in 1..Len(callLog) :
          /\ callLog[k].outcome = "pending" =>
                /\ k = Len(callLog)
                /\ pc \in {"DispatchingTools", "unwind", "close_connection", "done"}
                /\ tool_calls[idx].id = callLog[k].id
                /\ Len(tool_results_messages) = idx - 1
          /\ \E p \in 1..Len(tool_calls) : tool_calls[p].id = callLog[k].id
          /\ \A j \in 1..(k - 1) :
                PositionOf(callLog[j].id) < PositionOf(callLog[k].id)
    /\ pc \in {"DispatchingTools", "RequestingFinalCompletion"} =>
          /\ Len(tool_results_messages) <= Len(tool_calls)
          /\ \A k \in 1..Len(tool_results_messages) :
                tool_results_messages[k].tool_call_id = tool_calls[k].id
    /\ pc = "RequestingFinalCompletion" =>
          /\ Len(messages) = turnStart + 2 + Len(tool_calls)
          /\ \A k \in 1..Len(tool_calls) :
                /\ messages[turnStart + 2 + k].role = "tool"
                /\ messages[turnStart + 2 + k].tool_call_id = tool_calls[k].id

\* the third intent is being called, after the call of the first one failed
\* and the arguments of the second did not decode
C14_Witness ==
    /\ pc = "DispatchingTools"
    /\ Len(tool_calls) = 3
    /\ idx = 3
    /\ Len(callLog) = 2
    /\ callLog[1].outcome = "raised"
    /\ callLog[2].outcome = "pending"
    /\ tool_results_messages[2].content = JsonErrorContent

\* the ids of the intents of a response
IdsOf(calls) == {calls[k].id : k \in 1..Len(calls)}

\* C15: a turn sends at most two completion requests and dispatches at most
\* one batch: the second request carries no tool list and no tool choice, the
\* content of its response is the final answer that is displayed, and every
\* tool call of the turn is for an intent of the first response and was over
\* before the second request, also when the second response carries intents.
C15_TwoRequestsOneBatch ==
    /\ turnRequests <= 2
    /\ request.phase = "final" =>
          /\ turnRequests = 2
          /\ ~request.tools.given
          /\ request.tools.list = <<>>
          /\ request.tool_choice = None
    /\ pc = "RequestingFinalCompletion" => request.phase = "final"
    /\ pc = "DispatchingTools" => turnRequests = 1
    /\ \A k \in 1..Len(callLog) : callLog[k].id \in IdsOf(response.tool_calls)
    /\ (pc = "AwaitingInput" /\ turnRequests = 2) =>
          /\ final_answer = second_response.content
          /\ displayed = second_response.content
          /\ messages[Len(messages)] =
                [role |-> "assistant", content |-> second_response.content]
          /\ \A k \in 1..Len(callLog) :
                /\ callLog[k].outcome # "pending"
                /\ callLog[k].id \notin IdsOf(second_response.tool_calls)

\* a tool turn is over; its second response carried an intent
C15_Witness ==
    /\ pc = "AwaitingInput"
    /\ turnRequests = 2
    /\ second_response.tool_calls # <<>>
    /\ Len(callLog) = 2
    /\ displayed = second_response.content

\* s is a prefix of t
IsPrefix(s, t) == Len(s) <= Len(t) /\ SubSeq(t, 1, Len(s)) = s

\* C16: the history only grows: every step, in turns that end with an answer
\* and in turns that end with an error alike, leaves the history it found as a
\* prefix of the history it leaves, and once there is a history its first
\* message is the system instruction.
C16_AppendOnly ==
    /\ [][IsPrefix(messages, messages')]_vars
    /\ [](messages # <<>> => messages[1] = [role |-> "system", content |-> SystemPrompt])

\* the second turn was aborted by an error of the final request, after a first
\* turn with tools: the history holds both turns up to the error
C16_Witness ==
    /\ LoopLeft
    /\ ending = "APIError"
    /\ turns = 2
    /\ request.phase # "first"
    /\ Len(messages) = 9
    /\ messages[1].role = "system"
    /\ messages[Len(messages)].role = "tool"

\* the payload of the intent decodes as a mapping
IsMapping(tool_call) == JsonLoads(tool_call.arguments).value.type = "dict"

\* C17: call_tool is invoked only with arguments that decoded as a mapping: an
\* intent whose payload does not decode as a mapping is not called, and its
\* tool-role message carries the decode-error content.
C17_OnlyMappingsInvoked ==
    /\ \A c \in 1..Len(callLog) : callLog[c].arguments.type = "dict"
    /\ ToolTurn =>
          \A k \in 1..Len(tool_calls) :
             ~IsMapping(tool_calls[k]) =>
                /\ \A c \in 1..Len(callLog) : callLog[c].id # tool_calls[k].id
                /\ (k < idx \/ BatchOver) =>
                      /\ Len(tool_results_messages) >= k
                      /\ tool_results_messages[k].content = JsonErrorContent

\* a call of the batch is awaited, or was when the run was interrupted
CallAwaited == callLog # <<>> /\ callLog[Len(callLog)].outcome = "pending"

\* C18: the tool-role messages of a batch enter the history together, after
\* its last intent: while the batch is dispatched, and after an interruption
\* in the middle of it, the last message of the history is the assistant
\* message with the tool calls and no message of the history is a tool-role
\* message for an intent of the batch, whatever was collected so far.
C18_BatchEntersTogether ==
    (pc = "DispatchingTools" \/ CallAwaited) =>
        /\ Len(messages) = turnStart + 2
        /\ messages[Len(messages)] =
              [role |-> "assistant", content |-> response.content,
               tool_calls |-> tool_calls]
        /\ \A k \in 1..Len(messages) :
              messages[k].role = "tool" =>
                 messages[k].tool_call_id \notin IdsOf(tool_calls)

\* interrupted while the second call of a batch of the second turn was
\* awaited: the result of the first call is collected and not in the history
C18_Witness ==
    /\ pc = "unwind"
    /\ ending = "KeyboardInterrupt"
    /\ CallAwaited
    /\ turns = 2
    /\ idx = 2
    /\ Len(tool_results_messages) = 1
    /\ tool_results_messages[1].tool_call_id = tool_calls[1].id
    /\ messages[Len(messages)].role = "assistant"

\* kinds of messages of the history
IsSystem(m) == m.role = "system"
IsUser(m) == m.role = "user"
IsTool(m) == m.role = "tool"
IsPlainAssistant(m) == m.role = "assistant" /\ DOMAIN m = {"role", "content"}
IsToolCallAssistant(m) ==
    m.role = "assistant" /\ "tool_calls" \in DOMAIN m /\ m.tool_calls # <<>>

\* C19: when the loop waits for input the history is well formed: the system
\* message is first and the only one; the last message is the system message
\* or a plain assistant message; after every user message an assistant
\* message follows before the next user message; after every assistant
\* message with tool calls come the tool-role messages of its intents, one
\* per intent and in their order, and then a message that is not a tool-role
\* message; and every tool-role message is in such a block.
C19_WellFormedHistory ==
    pc = "AwaitingInput" =>
        LET n == Len(messages) IN
        /\ n >= 1
        /\ \A k \in 1..n : IsSystem(messages[k]) <=> k = 1
        /\ messages[1].content = SystemPrompt
        /\ n = 1 \/ IsPlainAssistant(messages[n])
        /\ \A k \in 1..n :
              IsUser(messages[k]) =>
                 \E j \in (k + 1)..n :
                    /\ messages[j].role = "assistant"
                    /\ \A i \in (k + 1)..j : ~IsUser(messages[i])
        /\ \A k \in 1..n :
              messages[k].role = "assistant" =>
                 IsPlainAssistant(messages[k]) \/ IsToolCallAssistant(messages[k])
        /\ \A k \in 1..n :
              IsToolCallAssistant(messages[k]) =>
                 LET calls == messages[k].tool_calls IN
                 /\ k + Len(calls) < n
                 /\ \A j \in 1..Len(calls) :
                       /\ IsTool(messages[k + j])
                       /\ messages[k + j].tool_call_id = calls[j].id
                       /\ messages[k + j].name = calls[j].name
                 /\ ~IsTool(messages[k + Len(calls) + 1])
        /\ \A p \in 1..n :
              IsTool(messages[p]) =>
                 \E k \in 1..(p - 1) :
                    /\ IsToolCallAssistant(messages[k])
                    /\ p - k <= Len(messages[k].tool_calls)

\* waiting for input after a turn with two intents, the first with arguments
\* that did not decode, and a turn answered directly
C19_Witness ==
    /\ pc = "AwaitingInput"
    /\ turns = 2
    /\ Len(messages) = 8
    /\ IsToolCallAssistant(messages[3])
    /\ messages[4].content = JsonErrorContent
    /\ IsTool(messages[5])
    /\ IsPlainAssistant(messages[6])
    /\ IsUser(messages[7])
    /\ IsPlainAssistant(messages[8])

\* ------------------------------------------------------------------ progress
\* every completion request and every tool call that is awaited returns or
\* raises, and a scope that is being left is left
FairSpec ==
    /\ Spec
    /\ WF_vars(FirstCompletionFails \/ FirstCompletionReturns)
    /\ WF_vars(ToolReturns \/ ToolRaises)
    /\ WF_vars(FinalCompletionFails \/ FinalCompletionReturns)
    /\ WF_vars(CloseSession)
    /\ WF_vars(CloseConnection)

InTurn == pc \in {"RequestingCompletion", "DispatchingTools", "RequestingFinalCompletion"}
TurnAnswered == pc = "AwaitingInput" /\ displayed = final_answer /\ request = NoRequest
Released == pc = "done" /\ ~sessOpen /\ ~connOpen

\* C20: when every awaited operation returns or raises, a turn that has begun
\* ends: the loop is back waiting for input with the answer displayed, or it
\* has been left (closed by an error, or interrupted); it does not stay in
\* RequestingCompletion, DispatchingTools or RequestingFinalCompletion.  And
\* once the loop has been left the session and the connection are released.
C20_TurnsEndAndScopesClose ==
    /\ InTurn ~> (TurnAnswered \/ LoopLeft)
    /\ LoopLeft ~> Released

\* the run is over after two answered turns with tools, all released
C20_Witness ==
    /\ Released
    /\ ending = "EOFError"
    /\ turns = 2
    /\ turnRequests = 2
    /\ displayed = final_answer
    /\ sessAcquired = 1
    /\ connAcquired = 1

====
